---- MODULE Spec2Model ----
(***************************************************************************)
(* A model of the zeroclaw service lifecycle manager (src/service/mod.rs)  *)
(* and of the resilience collaborator (src/resilience.rs).                 *)
(*                                                                         *)
(* The lifecycle part is a state machine over one host: the artifacts the  *)
(* commands create (definition file, scheduled task, registry Run key,     *)
(* wrapper script), the processes they start, and the record of the last   *)
(* command.  One command runs to completion before the next one starts, so *)
(* each command is one action; the outcome of every external tool and file *)
(* system call it makes is an input of the action.  A tool that exits with *)
(* success has had its effect on the host; a tool that fails has had none. *)
(* The two existence queries (schtasks /Query, reg QUERY) answer what the  *)
(* host holds.                                                             *)
(*                                                                         *)
(* Texts (stderr, error messages) are sequences of words.                  *)
(*                                                                         *)
(* The resilience part is a state machine over one workspace directory:    *)
(* the crash file and the task log.  Its calls come one after the other    *)
(* and their file system calls succeed (FsOutcomes).  A file's text is a   *)
(* sequence of tokens; the JSON writer and reader are modelled by what     *)
(* they do to the characters of the error text.                            *)
(***************************************************************************)
EXTENDS Integers, Sequences, FiniteSets, TLC

VARIABLES
    platform,       \* cfg!(target_os): "macos", "linux", "windows", "other"
    homeOk,         \* directories::UserDirs::new() resolves a home directory
    host,           \* artifacts and processes of the host, see CleanHost
    last,           \* the command that has just returned: name, host before it,
                    \* calls made, result, printed status
    cleanupFailed,  \* history: a delete of an existing task or Run key failed
    taskOverKey,    \* history: Install created the task while a Run key existed
    stopped,        \* history: Stop's sub-steps succeeded, no Start or logon since
    seq,            \* history: progress through Install, Start, Stop (no Uninstall)
    crashFile,      \* <workspace>/last_crash.json
    tasksFile,      \* <workspace>/RESILIENCE_TASKS.md
    now,            \* Utc::now(): the number of timestamps taken so far
    rlast,          \* the resilience call that has just returned, and the one before
    delivered,      \* history: how often each recorded crash has been returned
    reports,        \* history: the arguments of the report_task calls, in order
    wrap,           \* the process that runs the supervisor wrapper script
    eval,           \* one call of a text function: its arguments and what it returned
    callers         \* the threads that call report_task at the same time

svcVars == <<platform, homeOk, host, last, cleanupFailed, taskOverKey, stopped, seq>>
resVars == <<crashFile, tasksFile, now, rlast, delivered, reports>>
vars == <<svcVars, resVars, wrap, eval, callers>>

----------------------------------------------------------------------------
(* Texts *)

SERVICE_LABEL == "com.zeroclaw.daemon"
WINDOWS_TASK_NAME == "ZeroClaw Daemon"
WINDOWS_RUN_REG_VALUE == "ZeroClawDaemon"

\* str::to_ascii_lowercase, word by word
LowerWord(w) ==
    CASE w = "Access" -> "access"
      [] w = "ACCESS" -> "access"
      [] w = "ACCESO" -> "acceso"
      [] w = "DENEGADO" -> "denegado"
      [] w = "Permiso" -> "permiso"
      [] w = "ERROR:" -> "error:"
      [] w = "Command" -> "command"
      [] w = "Failed" -> "failed"
      [] OTHER -> w

to_ascii_lowercase(t) == [i \in 1..Len(t) |-> LowerWord(t[i])]

\* str::contains
contains(t, pat) ==
    \E i \in 1..(Len(t) + 1) :
        /\ i + Len(pat) - 1 <= Len(t)
        /\ SubSeq(t, i, i + Len(pat) - 1) = pat

\* What a failing tool may write to stderr.
StderrTexts ==
    { <<"ERROR:", "Access", "is", "denied">>,
      <<"ERROR:", "ACCESO", "DENEGADO">>,
      <<"Permiso", "denegado">>,
      <<"ERROR:", "access", "denied">>,
      <<"ERROR:", "not", "found">> }

NotFound == <<"ERROR:", "not", "found">>
Denied == <<"ERROR:", "Access", "is", "denied">>

----------------------------------------------------------------------------
(* Results and process outcomes *)

Ok == [ok |-> TRUE, err |-> <<>>]
Err(e) == [ok |-> FALSE, err |-> e]

\* The outcome of Command::output(): spawned or not, exit status, stderr.
Exited == [spawn |-> TRUE, success |-> TRUE, stderr |-> <<>>]
Failed(t) == [spawn |-> TRUE, success |-> FALSE, stderr |-> t]
NoSpawn == [spawn |-> FALSE, success |-> FALSE, stderr |-> <<>>]

\* Outcomes of a call whose error text is used by the caller.
Outcomes == {Exited, NoSpawn} \cup {Failed(t) : t \in StderrTexts}
\* Outcomes of a call whose error is discarded or only passed on.
Outcomes2 == {Exited, Failed(Denied)}

run_checked(x) ==
    IF ~x.spawn THEN Err(<<"Failed", "to", "spawn", "command">>)
    ELSE IF ~x.success THEN Err(<<"Command", "failed:">> \o x.stderr)
    ELSE Ok

\* One call of a command's trace: the tool, whether it succeeded, whether it
\* could be started, and what it wrote to stderr.
Call(tool, x) ==
    [tool |-> tool, ok |-> x.spawn /\ x.success, spawn |-> x.spawn, stderr |-> x.stderr]

\* A file system call.
FsCall(tool, ok) == [tool |-> tool, ok |-> ok, spawn |-> TRUE, stderr |-> <<>>]

Called(trace, tool) == \E i \in 1..Len(trace) : trace[i].tool = tool
CalledOk(trace, tool) == \E i \in 1..Len(trace) : trace[i].tool = tool /\ trace[i].ok
CalledFail(trace, tool) == \E i \in 1..Len(trace) : trace[i].tool = tool /\ ~trace[i].ok

----------------------------------------------------------------------------
(* The host *)

\* A supervisor wrapper process: not running, at its daemon line (the daemon
\* child runs), or between the daemon's exit and the next launch (exit code
\* logged, 5 s timeout, goto run_loop, state file deleted).
WrapperPc == {"off", "daemon", "backoff"}

CleanHost ==
    [ defFile |-> FALSE,     \* macOS plist / Linux unit file exists
      svc     |-> "none",    \* macOS: launchd job loaded; Linux: unit state
      proc    |-> FALSE,     \* macOS: a daemon process runs
      task    |-> FALSE,     \* Windows: the scheduled task exists
      taskW   |-> "off",     \* Windows: wrapper run by the scheduled task
      detW    |-> "off",     \* Windows: wrapper launched detached or by the Run key
      runKey  |-> FALSE,     \* Windows: the registry Run value exists
      wrapper |-> FALSE ]    \* Windows: the wrapper script file exists

NoOutput == [verdict |-> "none", mode |-> "none", shown |-> {}, note |-> <<>>]

\* The result of a command: host after it, calls made, Result, printed status
\* (note: the error in "Note: scheduled task unavailable (...)" of Install).
Done(h, trace, res) == [host |-> h, trace |-> trace, res |-> res, out |-> NoOutput]
Printed(h, trace, res, out) == [host |-> h, trace |-> trace, res |-> res, out |-> out]

Unsupported ==
    Err(<<"Service", "management", "is", "supported", "on", "macOS", "and", "Linux", "only">>)

----------------------------------------------------------------------------
(* The operating system's side of each external tool.  Each operator gives   *)
(* the outcome the caller sees (a tool cannot succeed on an artifact that    *)
(* is not there) and the host after the call.                                *)

Effective(can, x) == IF x.spawn /\ x.success /\ ~can THEN Failed(NotFound) ELSE x

Sys(h, x) == [host |-> h, x |-> x]

\* schtasks /Delete /TN <task> /F
schtasks_delete(h, x) ==
    LET e == Effective(h.task, x)
    IN  Sys(IF e.success THEN [h EXCEPT !.task = FALSE] ELSE h, e)

\* schtasks /Create /TN <task> /SC ONLOGON /TR <wrapper> /RL <level> /F
schtasks_create(h, x) ==
    Sys(IF x.success THEN [h EXCEPT !.task = TRUE] ELSE h, x)

\* reg ADD HKCU\...\Run /V ZeroClawDaemon /T REG_SZ /D <wrapper> /F
reg_add(h, x) ==
    Sys(IF x.success THEN [h EXCEPT !.runKey = TRUE] ELSE h, x)

\* reg DELETE HKCU\...\Run /V ZeroClawDaemon /F
reg_delete(h, x) ==
    LET e == Effective(h.runKey, x)
    IN  Sys(IF e.success THEN [h EXCEPT !.runKey = FALSE] ELSE h, e)

\* A wrapper process that is started runs down to its daemon line.
Launched(pc) == IF pc = "off" THEN "daemon" ELSE pc

\* schtasks /Run /TN <task>: the task's action is the wrapper script.
schtasks_run(h, x) ==
    LET e == Effective(h.task, x)
    IN  Sys(IF e.success /\ h.wrapper THEN [h EXCEPT !.taskW = Launched(h.taskW)] ELSE h, e)

\* schtasks /End /TN <task>: ends the task's running instance.
schtasks_end(h, x) ==
    LET e == Effective(h.task, x)
    IN  Sys(IF e.success THEN [h EXCEPT !.taskW = "off"] ELSE h, e)

\* cmd /C start "ZeroClaw Daemon" /MIN <wrapper>
cmd_start(h, x) ==
    LET e == Effective(h.wrapper, x)
    IN  Sys(IF e.success THEN [h EXCEPT !.detW = Launched(h.detW)] ELSE h, e)

\* What Stop-Process does to a wrapper: its daemon child exits, the wrapper
\* (cmd.exe, not matched by Name -eq 'zeroclaw.exe') goes on to the next line.
Killed(pc) == IF pc = "daemon" THEN "backoff" ELSE pc

\* powershell ... Where-Object { Name -eq 'zeroclaw.exe' ... } | Stop-Process
powershell_stop(h, x) ==
    Sys(IF x.success
        THEN [h EXCEPT !.taskW = Killed(h.taskW), !.detW = Killed(h.detW)]
        ELSE h, x)

\* Number of processes the scan's filter matches.
DaemonCount(h) ==
    (IF h.taskW = "daemon" THEN 1 ELSE 0) + (IF h.detW = "daemon" THEN 1 ELSE 0)

----------------------------------------------------------------------------
(* Windows helpers of src/service/mod.rs *)

\* Variant: the registry query is taken to succeed whatever the host holds.
windows_run_key_exists_always(h) == TRUE

windows_run_key_exists(h) == h.runKey

\* Variant: the exit status of reg ADD is not looked at.
install_windows_run_key_unchecked(h, x) ==
    LET s == reg_add(h, x)
    IN  [host |-> s.host, res |-> Ok, call |-> Call("reg ADD", s.x)]

install_windows_run_key(h, x) ==
    LET s == reg_add(h, x)
    IN  [host |-> s.host, res |-> run_checked(s.x), call |-> Call("reg ADD", s.x)]

uninstall_windows_run_key(h, x) ==
    LET s == reg_delete(h, x)
    IN  [host |-> s.host, res |-> run_checked(s.x), call |-> Call("reg DELETE", s.x)]

start_windows_wrapper_detached(h, x) ==
    LET s == cmd_start(h, x)
    IN  [host |-> s.host, res |-> run_checked(s.x), call |-> Call("cmd /C start", s.x)]

stop_windows_daemon_processes(h, x) ==
    LET s == powershell_stop(h, x)
    IN  [host |-> s.host, res |-> run_checked(s.x), call |-> Call("powershell Stop-Process", s.x)]

\* Variant: the count is compared with >= 0.
windows_daemon_running_ge(h, scan) ==
    IF scan = "spawn" THEN Err(<<"Failed", "to", "spawn", "command">>) @@ [val |-> FALSE]
    ELSE Ok @@ [val |-> (IF scan = "ok" THEN DaemonCount(h) ELSE 0) >= 0]

\* run_capture, then out.trim().parse::<u32>().unwrap_or(0) > 0.  scan is
\* "ok" (the count is printed), "garbled" (the output is no number) or
\* "spawn" (powershell cannot be started: Err).
windows_daemon_running(h, scan) ==
    IF scan = "spawn" THEN Err(<<"Failed", "to", "spawn", "command">>) @@ [val |-> FALSE]
    ELSE Ok @@ [val |-> (IF scan = "ok" THEN DaemonCount(h) ELSE 0) > 0]

\* Variant: unwrap_or(true)
unwrap_or_true(r) == r.ok => r.val

\* windows_daemon_running().unwrap_or(false)
unwrap_or_false(r) == r.ok /\ r.val

\* Variant: the error text is searched as it is, not in lower case.
access_denied_case_sensitive(e) ==
    \/ contains(e, <<"access", "is", "denied">>)
    \/ contains(e, <<"acceso", "denegado">>)
    \/ contains(e, <<"permiso", "denegado">>)

\* Variant: every error is taken for an access-denied error.
access_denied_always(e) == TRUE

access_denied(e) ==
    LET lower == to_ascii_lowercase(e)
    IN  \/ contains(lower, <<"access", "is", "denied">>)
        \/ contains(lower, <<"acceso", "denegado">>)
        \/ contains(lower, <<"permiso", "denegado">>)

IoErr(step) == Err(<<"io", "error:", step>>)

\* The steps of install_windows before the task is touched: current_exe,
\* create_dir_all(logs), fs::write(wrapper).  io names the first step that
\* fails, or is "ok".
IoSteps == {"ok", "current_exe", "create_dir_all", "write"}

create_with_level(h, level, x) ==
    LET s == schtasks_create(h, x)
    IN  [host |-> s.host, res |-> run_checked(s.x),
         call |-> Call(IF level = "HIGHEST" THEN "schtasks /Create HIGHEST"
                                             ELSE "schtasks /Create LIMITED", s.x)]

\* Variant: the Run key is written after the task has been created, too.
install_windows_both(h, o) ==
    IF o.io # "ok" THEN Done(h, <<>>, IoErr(o.io))
    ELSE
    LET h1  == [h EXCEPT !.wrapper = TRUE]
        del == schtasks_delete(h1, o.del)
        t1  == <<Call("fs::write wrapper", Exited), Call("schtasks /Delete", del.x)>>
        hi  == create_with_level(del.host, "HIGHEST", o.hi)
        reg == [host |-> [hi.host EXCEPT !.runKey = TRUE]]
    IN  IF hi.res.ok THEN Done(reg.host, t1 \o <<hi.call>>, Ok)
        ELSE Done(hi.host, t1 \o <<hi.call>>, hi.res)

install_windows(h, o) ==
    IF o.io # "ok" THEN Done(h, <<>>, IoErr(o.io))
    ELSE
    LET h1  == [h EXCEPT !.wrapper = TRUE]
        del == schtasks_delete(h1, o.del)
        t1  == <<Call("fs::write wrapper", Exited), Call("schtasks /Delete", del.x)>>
        hi  == create_with_level(del.host, "HIGHEST", o.hi)
    IN  IF hi.res.ok THEN Done(hi.host, t1 \o <<hi.call>>, Ok)
        ELSE
        LET retry == access_denied(hi.res.err)
            lim   == create_with_level(hi.host, "LIMITED", o.lim)
            t2    == t1 \o <<hi.call>> \o (IF retry THEN <<lim.call>> ELSE <<>>)
        IN  IF retry /\ lim.res.ok THEN Done(lim.host, t2, Ok)
            ELSE
            LET task_err == IF retry THEN lim.res ELSE hi.res
                reg == install_windows_run_key(hi.host, o.reg)
            IN  IF reg.res.ok
                THEN Printed(reg.host, t2 \o <<reg.call>>, Ok,
                             [NoOutput EXCEPT !.note = task_err.err])
                ELSE Done(reg.host, t2 \o <<reg.call>>, reg.res)

start_windows(h, o) ==
    LET run == schtasks_run(h, o.run)
        r   == run_checked(run.x)
        t1  == <<Call("schtasks /Run", run.x)>>
    IN  IF r.ok THEN Done(run.host, t1, Ok)
        ELSE IF windows_run_key_exists(run.host)
        THEN LET w == start_windows_wrapper_detached(run.host, o.launch)
             IN  Done(w.host, t1 \o <<Call("reg QUERY", Exited), w.call>>, w.res)
        ELSE Done(run.host, t1 \o <<Call("reg QUERY", Failed(NotFound))>>, r)

stop_windows(h, o) ==
    LET end  == schtasks_end(h, o.end)
        kill == stop_windows_daemon_processes(end.host, o.kill)
    IN  Done(kill.host, <<Call("schtasks /End", end.x), kill.call>>, Ok)

status_windows(h, o) ==
    LET scan == unwrap_or_false(windows_daemon_running(h, o.scan))
        key  == windows_run_key_exists(h)
        entry == IF key THEN {"Startup entry", "Wrapper"} ELSE {}
        ps   == [tool |-> "powershell Count", ok |-> o.scan = "ok",
                 spawn |-> o.scan # "spawn", stderr |-> <<>>]
    IN  IF h.task
        THEN LET task_running == h.taskW # "off"
                 fallback_running == scan
                 effective_running == task_running \/ fallback_running
                 mode == IF task_running THEN "scheduled-task mode"
                         ELSE IF fallback_running THEN "startup-registry mode"
                         ELSE "stopped"
             IN  Printed(h, <<Call("schtasks /Query", Exited), ps>>, Ok,
                         [verdict |-> IF effective_running THEN "running" ELSE "not running",
                          mode |-> mode, shown |-> {"Task"} \cup entry,
                          note |-> <<>>])
        ELSE IF key
        THEN Printed(h, <<Call("schtasks /Query", Failed(NotFound)), ps>>, Ok,
                     [verdict |-> IF scan THEN "running" ELSE "not running",
                      mode |-> "startup-registry mode", shown |-> entry, note |-> <<>>])
        ELSE Printed(h, <<Call("schtasks /Query", Failed(NotFound))>>, Ok,
                     [verdict |-> "not installed", mode |-> "none", shown |-> {}, note |-> <<>>])

\* Variant: a failed deletion of the task ends Uninstall with its error.
uninstall_windows_checked(h, o) ==
    LET st  == stop_windows(h, o)
        del == schtasks_delete(st.host, o.del)
        reg == uninstall_windows_run_key(del.host, o.reg)
        h3  == IF reg.host.wrapper /\ o.rm THEN [reg.host EXCEPT !.wrapper = FALSE]
               ELSE reg.host
    IN  IF ~run_checked(del.x).ok
        THEN Done(del.host, st.trace \o <<Call("schtasks /Delete", del.x)>>, run_checked(del.x))
        ELSE Done(h3, st.trace \o <<Call("schtasks /Delete", del.x), reg.call>>
                  \o (IF reg.host.wrapper
                      THEN <<FsCall("fs::remove_file wrapper", o.rm)>> ELSE <<>>),
             Ok)

\* Variant: the wrapper script is left on disk.
uninstall_windows_keeps_wrapper(h, o) ==
    LET st  == stop_windows(h, o)
        del == schtasks_delete(st.host, o.del)
        reg == uninstall_windows_run_key(del.host, o.reg)
    IN  Done(reg.host, st.trace \o <<Call("schtasks /Delete", del.x), reg.call>>, Ok)

uninstall_windows(h, o) ==
    LET st  == stop_windows(h, o)
        del == schtasks_delete(st.host, o.del)
        reg == uninstall_windows_run_key(del.host, o.reg)
        h3  == IF reg.host.wrapper /\ o.rm THEN [reg.host EXCEPT !.wrapper = FALSE]
               ELSE reg.host
    IN  Done(h3, st.trace \o <<Call("schtasks /Delete", del.x), reg.call>>
                  \o (IF reg.host.wrapper
                      THEN <<FsCall("fs::remove_file wrapper", o.rm)>> ELSE <<>>),
             Ok)

----------------------------------------------------------------------------
(* macOS (launchd) *)

NoHome == Err(<<"Could", "not", "find", "home", "directory">>)

\* macos_service_file() and linux_service_file(): Ok with the path, or NoHome.
macos_service_file(home) == IF home THEN Ok ELSE NoHome
linux_service_file(home) == IF home THEN Ok ELSE NoHome

\* launchctl load -w <plist>: the job is loaded and, with RunAtLoad, started.
launchctl_load(h, x) ==
    LET e == Effective(h.defFile, x)
    IN  Sys(IF e.success THEN [h EXCEPT !.svc = "loaded", !.proc = TRUE] ELSE h, e)

\* launchctl start <label>
launchctl_start(h, x) ==
    LET e == Effective(h.svc = "loaded", x)
    IN  Sys(IF e.success THEN [h EXCEPT !.proc = TRUE] ELSE h, e)

\* launchctl stop <label>
launchctl_stop(h, x) ==
    LET e == Effective(h.svc = "loaded", x)
    IN  Sys(IF e.success THEN [h EXCEPT !.proc = FALSE] ELSE h, e)

\* launchctl unload -w <plist>
launchctl_unload(h, x) ==
    LET e == Effective(h.defFile /\ h.svc = "loaded", x)
    IN  Sys(IF e.success THEN [h EXCEPT !.svc = "none", !.proc = FALSE] ELSE h, e)

\* The steps of install_macos and install_linux after the path is resolved:
\* create_dir_all, current_exe, fs::write.
install_macos(h, home, o) ==
    IF ~macos_service_file(home).ok THEN Done(h, <<>>, NoHome)
    ELSE IF o.io # "ok" THEN Done(h, <<>>, IoErr(o.io))
    ELSE Done([h EXCEPT !.defFile = TRUE], <<Call("fs::write plist", Exited)>>, Ok)

\* Variant: the result of the load is dropped.
start_macos_lenient(h, home, o) ==
    IF ~macos_service_file(home).ok THEN Done(h, <<>>, NoHome)
    ELSE
    LET load == launchctl_load(h, o.load)
        st   == launchctl_start(load.host, o.start)
    IN  Done(st.host, <<Call("launchctl load", load.x), Call("launchctl start", st.x)>>,
             run_checked(st.x))

start_macos(h, home, o) ==
    IF ~macos_service_file(home).ok THEN Done(h, <<>>, NoHome)
    ELSE
    LET load == launchctl_load(h, o.load)
        r1   == run_checked(load.x)
        t1   == <<Call("launchctl load", load.x)>>
    IN  IF ~r1.ok THEN Done(load.host, t1, r1)
        ELSE
        LET st == launchctl_start(load.host, o.start)
        IN  Done(st.host, t1 \o <<Call("launchctl start", st.x)>>, run_checked(st.x))

stop_macos(h, home, o) ==
    IF ~macos_service_file(home).ok THEN Done(h, <<>>, NoHome)
    ELSE
    LET st == launchctl_stop(h, o.stop)
        un == launchctl_unload(st.host, o.unload)
    IN  Done(un.host, <<Call("launchctl stop", st.x), Call("launchctl unload", un.x)>>, Ok)

\* Variant: Status loads the job when it finds it not loaded.
status_macos_loads(h, home, o) ==
    IF o.list = "spawn"
    THEN Done(h, <<Call("launchctl list", NoSpawn)>>, Err(<<"Failed", "to", "spawn", "command">>))
    ELSE
    LET running == h.svc = "loaded"
        verdict == IF running THEN "running/loaded" ELSE "not loaded"
        t  == <<Call("launchctl list", Exited)>>
        h1 == IF h.defFile /\ ~running THEN [h EXCEPT !.svc = "loaded", !.proc = TRUE] ELSE h
    IN  IF ~macos_service_file(home).ok
        THEN Printed(h1, t, NoHome, [verdict |-> verdict, mode |-> "none", shown |-> {}, note |-> <<>>])
        ELSE Printed(h1, t, Ok, [verdict |-> verdict, mode |-> "none", shown |-> {"Unit"}, note |-> <<>>])

\* o.list is "ok" or "spawn" (launchctl cannot be started: run_capture is Err).
status_macos(h, home, o) ==
    IF o.list = "spawn"
    THEN Done(h, <<Call("launchctl list", NoSpawn)>>, Err(<<"Failed", "to", "spawn", "command">>))
    ELSE
    LET running == h.svc = "loaded"
        verdict == IF running THEN "running/loaded" ELSE "not loaded"
        t  == <<Call("launchctl list", Exited)>>
    IN  IF ~macos_service_file(home).ok
        THEN Printed(h, t, NoHome, [verdict |-> verdict, mode |-> "none", shown |-> {}, note |-> <<>>])
        ELSE Printed(h, t, Ok, [verdict |-> verdict, mode |-> "none", shown |-> {"Unit"}, note |-> <<>>])

RemoveErr == Err(<<"Failed", "to", "remove">>)

uninstall_macos(h, home, o) ==
    LET st == stop_macos(h, home, o)
    IN  IF ~st.res.ok THEN st
        ELSE IF ~macos_service_file(home).ok THEN Done(st.host, st.trace, NoHome)
        ELSE IF ~st.host.defFile THEN Done(st.host, st.trace, Ok)
        ELSE IF ~o.rm
        THEN Done(st.host, st.trace \o <<FsCall("fs::remove_file", FALSE)>>, RemoveErr)
        ELSE Done([st.host EXCEPT !.defFile = FALSE],
                  st.trace \o <<FsCall("fs::remove_file", TRUE)>>, Ok)

----------------------------------------------------------------------------
(* Linux (systemd --user) *)

\* systemctl --user start zeroclaw.service
systemctl_start(h, x) ==
    LET e == Effective(h.defFile, x)
    IN  Sys(IF e.success THEN [h EXCEPT !.svc = "active"] ELSE h, e)

\* systemctl --user stop zeroclaw.service
systemctl_stop(h, x) ==
    LET e == Effective(h.defFile \/ h.svc # "none", x)
    IN  Sys(IF e.success THEN [h EXCEPT !.svc = "none"] ELSE h, e)

\* What systemctl --user is-active prints.
is_active(h) ==
    CASE h.svc = "active" -> "active"
      [] h.svc = "activating" -> "activating"
      [] OTHER -> "inactive"

install_linux(h, home, o) ==
    IF ~linux_service_file(home).ok THEN Done(h, <<>>, NoHome)
    ELSE IF o.io # "ok" THEN Done(h, <<>>, IoErr(o.io))
    ELSE Done([h EXCEPT !.defFile = TRUE],
              <<Call("fs::write unit", Exited), Call("systemctl daemon-reload", o.reload),
                Call("systemctl enable", o.enable)>>, Ok)

\* Variant: a failed daemon-reload is discarded.
start_linux_lenient(h, o) ==
    LET t1 == <<Call("systemctl daemon-reload", o.reload)>>
        st == systemctl_start(h, o.start)
    IN  Done(st.host, t1 \o <<Call("systemctl start", st.x)>>, run_checked(st.x))

start_linux(h, o) ==
    LET r1 == run_checked(o.reload)
        t1 == <<Call("systemctl daemon-reload", o.reload)>>
    IN  IF ~r1.ok THEN Done(h, t1, r1)
        ELSE
        LET st == systemctl_start(h, o.start)
        IN  Done(st.host, t1 \o <<Call("systemctl start", st.x)>>, run_checked(st.x))

\* Variant: the result of systemctl stop is returned.
stop_linux_checked(h, o) ==
    LET st == systemctl_stop(h, o.stop)
    IN  Done(st.host, <<Call("systemctl stop", st.x)>>, run_checked(st.x))

\* Variant: Stop reloads the unit files first.
stop_linux_reloads(h, o) ==
    LET st == systemctl_stop(h, o.stop)
    IN  Done(st.host, <<Call("systemctl daemon-reload", Exited), Call("systemctl stop", st.x)>>,
             Ok)

stop_linux(h, o) ==
    LET st == systemctl_stop(h, o.stop)
    IN  Done(st.host, <<Call("systemctl stop", st.x)>>, Ok)

\* o.isactive is "ok" or "spawn" (run_capture is Err: unwrap_or_else "unknown").
status_linux(h, home, o) ==
    LET state == IF o.isactive = "spawn" THEN "unknown" ELSE is_active(h)
        t == <<Call("systemctl is-active", IF o.isactive = "spawn" THEN NoSpawn ELSE Exited)>>
    IN  IF ~linux_service_file(home).ok
        THEN Printed(h, t, NoHome, [verdict |-> state, mode |-> "none", shown |-> {}, note |-> <<>>])
        ELSE Printed(h, t, Ok, [verdict |-> state, mode |-> "none", shown |-> {"Unit"}, note |-> <<>>])

\* Variant: a failed removal of the unit file is discarded.
uninstall_linux_lenient(h, home, o) ==
    LET st == stop_linux(h, o)
        rl == <<Call("systemctl daemon-reload", o.reload)>>
    IN  IF ~linux_service_file(home).ok THEN Done(st.host, st.trace, NoHome)
        ELSE IF ~st.host.defFile THEN Done(st.host, st.trace \o rl, Ok)
        ELSE Done([st.host EXCEPT !.defFile = ~o.rm],
                  st.trace \o <<FsCall("fs::remove_file", o.rm)>> \o rl, Ok)

uninstall_linux(h, home, o) ==
    LET st == stop_linux(h, o)
        rl == <<Call("systemctl daemon-reload", o.reload)>>
    IN  IF ~linux_service_file(home).ok THEN Done(st.host, st.trace, NoHome)
        ELSE IF ~st.host.defFile THEN Done(st.host, st.trace \o rl, Ok)
        ELSE IF ~o.rm
        THEN Done(st.host, st.trace \o <<FsCall("fs::remove_file", FALSE)>>, RemoveErr)
        ELSE Done([st.host EXCEPT !.defFile = FALSE],
                  st.trace \o <<FsCall("fs::remove_file", TRUE)>> \o rl, Ok)

----------------------------------------------------------------------------
(* The five commands: dispatch on cfg!(target_os) *)

install(p, home, h, o) ==
    CASE p = "macos" -> install_macos(h, home, o)
      [] p = "linux" -> install_linux(h, home, o)
      [] p = "windows" -> install_windows(h, o)
      [] OTHER -> Done(h, <<>>, Unsupported)

start(p, home, h, o) ==
    CASE p = "macos" -> start_macos(h, home, o)
      [] p = "linux" -> start_linux(h, o)
      [] p = "windows" -> start_windows(h, o)
      [] OTHER -> Done(h, <<>>, Unsupported)

\* Variant: Stop succeeds on a platform it does not know.
stop_lenient(p, home, h, o) ==
    CASE p = "macos" -> stop_macos(h, home, o)
      [] p = "linux" -> stop_linux(h, o)
      [] p = "windows" -> stop_windows(h, o)
      [] OTHER -> Done(h, <<>>, Ok)

stop(p, home, h, o) ==
    CASE p = "macos" -> stop_macos(h, home, o)
      [] p = "linux" -> stop_linux(h, o)
      [] p = "windows" -> stop_windows(h, o)
      [] OTHER -> Done(h, <<>>, Unsupported)

status(p, home, h, o) ==
    CASE p = "macos" -> status_macos(h, home, o)
      [] p = "linux" -> status_linux(h, home, o)
      [] p = "windows" -> status_windows(h, o)
      [] OTHER -> Done(h, <<>>, Unsupported)

uninstall(p, home, h, o) ==
    CASE p = "macos" -> uninstall_macos(h, home, o)
      [] p = "linux" -> uninstall_linux(h, home, o)
      [] p = "windows" -> uninstall_windows(h, o)
      [] OTHER -> Done(h, <<>>, Unsupported)

\* The outcomes of the calls each command makes, per platform.
InstallInputs(p) ==
    CASE p = "windows" ->
           [io : IoSteps \ {"ok"}, del : {Exited}, hi : {Exited}, lim : {Exited},
            reg : {Exited}]
           \cup [io : {"ok"}, del : Outcomes2, hi : {Exited}, lim : {Exited}, reg : {Exited}]
           \cup [io : {"ok"}, del : Outcomes2, hi : Outcomes \ {Exited}, lim : Outcomes2,
                 reg : Outcomes2]
      [] p = "linux" ->
           [io : IoSteps \ {"ok"}, reload : {Exited}, enable : {Exited}]
           \cup [io : {"ok"}, reload : Outcomes2, enable : Outcomes2]
      [] OTHER -> [io : IoSteps]

StartInputs(p) ==
    CASE p = "windows" ->
           [run : {Exited}, launch : {Exited}]
           \cup [run : Outcomes \ {Exited}, launch : Outcomes2]
      [] p = "macos" -> [load : Outcomes2, start : Outcomes2]
      [] p = "linux" -> [reload : Outcomes2, start : Outcomes2]
      [] OTHER -> {<<>>}

StopInputs(p) ==
    CASE p = "windows" -> [end : Outcomes2, kill : Outcomes2]
      [] p = "macos" -> [stop : Outcomes2, unload : Outcomes2]
      [] p = "linux" -> [stop : Outcomes2]
      [] OTHER -> {<<>>}

StatusInputs(p) ==
    CASE p = "windows" -> [scan : {"ok", "garbled", "spawn"}]
      [] p = "macos" -> [list : {"ok", "spawn"}]
      [] p = "linux" -> [isactive : {"ok", "spawn"}]
      [] OTHER -> {<<>>}

UninstallInputs(p) ==
    CASE p = "windows" ->
           [end : Outcomes2, kill : Outcomes2, del : Outcomes2, reg : Outcomes2, rm : BOOLEAN]
      [] p = "macos" -> [stop : Outcomes2, unload : Outcomes2, rm : BOOLEAN]
      [] p = "linux" -> [stop : Outcomes2, reload : Outcomes2, rm : BOOLEAN]
      [] OTHER -> {<<>>}

----------------------------------------------------------------------------
(* The resilience collaborator (src/resilience.rs) *)

\* The error texts handed to record_crash are sequences of characters: a
\* letter, the quote character and the backslash.
MaxErrLen == 1
ErrChars == {"e", "q", "b"}
ErrTexts == UNION {[1..k -> ErrChars] : k \in 0..MaxErrLen}

\* A file of the workspace: absent, or its text.  id tells which record_crash
\* call wrote the text (history, not read by the code).
NoFile == [exists |-> FALSE, text |-> <<>>, id |-> 0]
File(text, id) == [exists |-> TRUE, text |-> text, id |-> id]

\* Option<CrashInfo>
None == [some |-> FALSE, timestamp |-> 0, error |-> <<>>]
Some(info) == [some |-> TRUE, timestamp |-> info.timestamp, error |-> info.error]

\* serde_json's string escaping: a backslash before a quote or a backslash.
RECURSIVE escape(_)
escape(t) ==
    IF t = <<>> THEN <<>>
    ELSE (IF Head(t) \in {"q", "b"} THEN <<"b", Head(t)>> ELSE <<Head(t)>>)
             \o escape(Tail(t))

\* serde_json::to_string_pretty(&CrashInfo): the two fields, the error text
\* as an escaped string between quotes.
to_string_pretty(info) ==
    <<"{", "timestamp", info.timestamp, "error", "q">>
        \o escape(info.error) \o <<"q", "}">>

\* Reads a JSON string body up to its closing quote: the text it stands for
\* and what follows it, or no result when the string is malformed.
RECURSIVE read_string(_)
read_string(s) ==
    IF s = <<>> THEN [ok |-> FALSE, val |-> <<>>, rest |-> <<>>]
    ELSE IF Head(s) = "q" THEN [ok |-> TRUE, val |-> <<>>, rest |-> Tail(s)]
    ELSE IF Head(s) = "b"
         THEN IF Len(s) >= 2 /\ s[2] \in {"q", "b"}
              THEN LET r == read_string(SubSeq(s, 3, Len(s)))
                   IN  [r EXCEPT !.val = <<s[2]>> \o r.val]
              ELSE [ok |-> FALSE, val |-> <<>>, rest |-> <<>>]
         ELSE LET r == read_string(Tail(s))
              IN  [r EXCEPT !.val = <<Head(s)>> \o r.val]

\* serde_json::from_str::<CrashInfo>(&content).ok()
from_str(content) ==
    IF Len(content) >= 5 /\ SubSeq(content, 1, 2) = <<"{", "timestamp">>
          /\ SubSeq(content, 4, 5) = <<"error", "q">>
    THEN LET r == read_string(SubSeq(content, 6, Len(content)))
         IN  IF r.ok /\ r.rest = <<"}">>
             THEN Some([timestamp |-> content[3], error |-> r.val])
             ELSE None
    ELSE None

\* Variant: a crash file that is there is not overwritten.
record_crash_keeps_first(file, error, ts, id, writeOk) ==
    IF writeOk /\ ~file.exists
    THEN File(to_string_pretty([timestamp |-> ts, error |-> error]), id)
    ELSE file

\* record_crash: the file after the call.  writeOk is fs::write's outcome,
\* which the code discards.
record_crash(file, error, ts, id, writeOk) ==
    IF writeOk
    THEN File(to_string_pretty([timestamp |-> ts, error |-> error]), id)
    ELSE file

\* Variant: the file is left in place after it has been read.
consume_crash_keeps_file(file, readOk, removeOk) ==
    IF file.exists /\ readOk
    THEN [file |-> file, ret |-> from_str(file.text)]
    ELSE [file |-> file, ret |-> None]

\* consume_crash: the file after the call and the value returned.
consume_crash(file, readOk, removeOk) ==
    IF file.exists
    THEN IF readOk
         THEN [file |-> IF removeOk THEN NoFile ELSE file,
               ret |-> from_str(file.text)]
         ELSE [file |-> file, ret |-> None]
    ELSE [file |-> file, ret |-> None]

\* The blocks of RESILIENCE_TASKS.md: the header and the incident entries.
Header ==
    [class |-> "HEADER", title |-> "# Resilience Tasks", time |-> 0, detail |-> <<>>]

\* format!("\n## [{}] {}\n\n- **Time**: {}\n- **Detail**: {}\n\n---", ...)
Entry(title, detail, ts) ==
    [class |-> IF contains(detail, <<"fatal">>) THEN "FATAL" ELSE "RECOVERY",
     title |-> title, time |-> ts, detail |-> detail]

\* Variant: the header is written by every call.
report_task_header_each(file, title, detail, ts, readOk, writeOk) ==
    LET content == (IF file.exists /\ readOk THEN file.text ELSE <<>>) \o <<Header>>
    IN  IF writeOk THEN File(content \o <<Entry(title, detail, ts)>>, 0) ELSE file

\* Variant: the file is started afresh by every call.
report_task_fresh(file, title, detail, ts, readOk, writeOk) ==
    IF writeOk THEN File(<<Header>> \o <<Entry(title, detail, ts)>>, 0) ELSE file

\* report_task: the file after the call.  readOk and writeOk are the outcomes
\* of read_to_string (unwrap_or_default) and fs::write (discarded).
report_task(file, title, detail, ts, readOk, writeOk) ==
    LET content == IF file.exists
                   THEN (IF readOk THEN file.text ELSE <<>>)
                   ELSE <<Header>>
    IN  IF writeOk THEN File(content \o <<Entry(title, detail, ts)>>, 0) ELSE file

Titles == {"daemon crashed", "channel error"}
Details == {<<"fatal", "error">>, <<"Fatal", "error">>, <<"retrying">>}

\* The workspace directory exists and is writable: the file system calls of
\* the resilience module succeed.
FsOutcomes == {TRUE}

\* Two threads of the daemon, each about to call report_task once.
Callers == {1, 2}

\* A call of report_task: where it is, its arguments and timestamp, what
\* tasks_file.exists() answered and the content it holds.
Idle == [pc |-> "idle", title |-> "", detail |-> <<>>, time |-> 0, existed |-> FALSE,
         content |-> <<>>]

NoCallers == [p \in Callers |-> Idle]

----------------------------------------------------------------------------
(* The supervisor wrapper script (build_windows_supervisor_wrapper) and the *)
(* command interpreter that runs it.  A script is a sequence of lines; a    *)
(* line is an instruction with up to two words and a number.                *)

Ins(op, a, b, n) == [op |-> op, a |-> a, b |-> b, n |-> n]

\* Variant: the script has no last line.
build_windows_supervisor_wrapper_once(exe_path, state_file, stdout_log, stderr_log, supervisor_log) ==
    << Ins("@echo off", "", "", 0),
       Ins("setlocal", "EnableExtensions", "EnableDelayedExpansion", 0),
       Ins("set", "ZEROCLAW_EXE", exe_path, 0),
       Ins("set", "ZEROCLAW_STATE", state_file, 0),
       Ins("set", "ZEROCLAW_STDOUT", stdout_log, 0),
       Ins("set", "ZEROCLAW_STDERR", stderr_log, 0),
       Ins("set", "ZEROCLAW_SUPERVISOR", supervisor_log, 0),
       Ins("set /a", "RESTART_COUNT", "=", 0),
       Ins("label", "run_loop", "", 0),
       Ins("set /a", "RESTART_COUNT", "+=", 1),
       Ins("echo starting daemon attempt", "RESTART_COUNT", "ZEROCLAW_SUPERVISOR", 0),
       Ins("if exist del", "ZEROCLAW_STATE", "", 0),
       Ins("run", "ZEROCLAW_EXE", "daemon", 0),
       Ins("set errorlevel", "EXIT_CODE", "", 0),
       Ins("echo daemon exited with code", "EXIT_CODE", "ZEROCLAW_SUPERVISOR", 0),
       Ins("timeout", "/t", "/nobreak", 5) >>

build_windows_supervisor_wrapper(exe_path, state_file, stdout_log, stderr_log, supervisor_log) ==
    << Ins("@echo off", "", "", 0),
       Ins("setlocal", "EnableExtensions", "EnableDelayedExpansion", 0),
       Ins("set", "ZEROCLAW_EXE", exe_path, 0),
       Ins("set", "ZEROCLAW_STATE", state_file, 0),
       Ins("set", "ZEROCLAW_STDOUT", stdout_log, 0),
       Ins("set", "ZEROCLAW_STDERR", stderr_log, 0),
       Ins("set", "ZEROCLAW_SUPERVISOR", supervisor_log, 0),
       Ins("set /a", "RESTART_COUNT", "=", 0),
       Ins("label", "run_loop", "", 0),
       Ins("set /a", "RESTART_COUNT", "+=", 1),
       Ins("echo starting daemon attempt", "RESTART_COUNT", "ZEROCLAW_SUPERVISOR", 0),
       Ins("if exist del", "ZEROCLAW_STATE", "", 0),
       Ins("run", "ZEROCLAW_EXE", "daemon", 0),
       Ins("set errorlevel", "EXIT_CODE", "", 0),
       Ins("echo daemon exited with code", "EXIT_CODE", "ZEROCLAW_SUPERVISOR", 0),
       Ins("timeout", "/t", "/nobreak", 5),
       Ins("goto", "run_loop", "", 0) >>

\* The paths install_windows hands to the script.
ExePath == "zeroclaw.exe"
StatePath == "daemon_state.json"
StdoutPath == "logs/daemon.stdout.log"
StderrPath == "logs/daemon.stderr.log"
SupervisorPath == "logs/daemon.supervisor.log"

WrapperScript ==
    build_windows_supervisor_wrapper(ExePath, StatePath, StdoutPath, StderrPath,
                                     SupervisorPath)

PathVars ==
    {"ZEROCLAW_EXE", "ZEROCLAW_STATE", "ZEROCLAW_STDOUT", "ZEROCLAW_STDERR",
     "ZEROCLAW_SUPERVISOR"}

\* RESTART_COUNT is counted up to this value.
MaxRestarts == 3

\* The exit codes of the daemon.
ExitCodes == {0, 1, 255}

\* The line after the label, or past the end of the script if there is none.
LabelLine(script, name) ==
    LET at == {k \in 1..Len(script) : script[k].op = "label" /\ script[k].a = name}
    IN  IF at = {} THEN Len(script) + 1
        ELSE (CHOOSE k \in at : \A m \in at : k <= m) + 1

\* The wrapper process.  No script is running.
NoWrapper ==
    [script |-> <<>>, pc |-> 0, env |-> [v \in PathVars |-> ""], count |-> 0,
     exitCode |-> 0, errorlevel |-> 0, up |-> FALSE, waiting |-> FALSE, wait |-> 0,
     files |-> {}, log |-> [text |-> "", n |-> 0],
     launches |-> 0, stateAtLaunch |-> FALSE, lastExit |-> 0, exitLogged |-> FALSE,
     sinceExit |-> 0, delayAtLaunch |-> 0]

\* One line of the script is executed.  The run line starts the daemon and
\* waits for its exit; the timeout line waits until its seconds have passed.
exec(w) ==
    LET i == w.script[w.pc]
        next == [w EXCEPT !.pc = @ + 1]
    IN  CASE i.op = "set" -> [next EXCEPT !.env[i.a] = i.b]
          [] i.op = "set /a" ->
               [next EXCEPT !.count = IF i.b = "=" THEN i.n
                                      ELSE IF @ + i.n > MaxRestarts THEN MaxRestarts
                                      ELSE @ + i.n]
          [] i.op = "echo starting daemon attempt" ->
               [next EXCEPT !.log = [text |-> i.op, n |-> w.count],
                            !.files = @ \cup {w.env[i.b]}]
          [] i.op = "echo daemon exited with code" ->
               [next EXCEPT !.log = [text |-> i.op, n |-> w.exitCode],
                            !.files = @ \cup {w.env[i.b]},
                            !.exitLogged = (w.exitCode = w.lastExit)]
          [] i.op = "if exist del" -> [next EXCEPT !.files = @ \ {w.env[i.a]}]
          [] i.op = "run" ->
               [w EXCEPT !.up = TRUE,
                         !.files = @ \cup {w.env["ZEROCLAW_STDOUT"], w.env["ZEROCLAW_STDERR"]},
                         !.launches = IF @ < 2 THEN @ + 1 ELSE @,
                         !.stateAtLaunch = (StatePath \in w.files),
                         !.delayAtLaunch = w.sinceExit]
          [] i.op = "set errorlevel" -> [next EXCEPT !.exitCode = w.errorlevel]
          [] i.op = "timeout" ->
               IF w.waiting THEN [next EXCEPT !.waiting = FALSE]
               ELSE [w EXCEPT !.waiting = TRUE, !.wait = i.n]
          [] i.op = "goto" -> [w EXCEPT !.pc = LabelLine(w.script, i.a)]
          [] OTHER -> next

\* The daemon child exits with a code: the run line is done.
daemon_exit(w, code) ==
    [w EXCEPT !.up = FALSE, !.errorlevel = code, !.pc = @ + 1,
              !.lastExit = code, !.exitLogged = FALSE, !.sinceExit = 0]

----------------------------------------------------------------------------
(* The text functions: truncate_with_ellipsis (src/util.rs) and xml_escape  *)
(* (src/service/mod.rs).  A character is a string that names it; a str is   *)
(* the sequence of the bytes of its characters in UTF-8, each byte known by *)
(* its character and its place in it.                                       *)

MaxLen == 3     \* characters of an input text
MaxChars == 3   \* the largest max_chars

Chars == {"h", " ", "crab"}

len_utf8(c) == IF c = "crab" THEN 4 ELSE 1

is_whitespace(c) == c = " "

RECURSIVE as_bytes(_)
as_bytes(text) ==
    IF text = <<>> THEN <<>>
    ELSE [i \in 1..len_utf8(Head(text)) |-> [char |-> Head(text), byte |-> i]]
            \o as_bytes(Tail(text))

\* s.char_indices(): the byte offset and the character of each character.
RECURSIVE char_indices_from(_, _)
char_indices_from(s, i) ==
    IF i > Len(s) THEN <<>>
    ELSE (IF s[i].byte = 1 THEN << [idx |-> i - 1, c |-> s[i].char] >> ELSE <<>>)
            \o char_indices_from(s, i + 1)

char_indices(s) == char_indices_from(s, 1)

\* Iterator::nth
nth(it, n) == IF n < Len(it) THEN [some |-> TRUE, item |-> it[n + 1]]
              ELSE [some |-> FALSE, item |-> [idx |-> 0, c |-> ""]]

is_char_boundary(s, idx) ==
    \/ idx = 0
    \/ idx = Len(s)
    \/ idx < Len(s) /\ s[idx + 1].byte = 1

Panic == << [char |-> "panic", byte |-> 0] >>

\* &s[..idx]
slice_to(s, idx) == IF is_char_boundary(s, idx) THEN SubSeq(s, 1, idx) ELSE Panic

RECURSIVE trim_end(_)
trim_end(s) ==
    IF s = <<>> THEN s
    ELSE IF is_whitespace(s[Len(s)].char)
         THEN trim_end(SubSeq(s, 1, Len(s) - len_utf8(s[Len(s)].char)))
         ELSE s

Dots == <<".", ".", ".">>

\* Variant: max_chars counts bytes.
truncate_at_byte(s, max_chars) ==
    IF max_chars < Len(s)
    THEN LET truncated == slice_to(s, max_chars)
         IN  IF truncated = Panic THEN Panic
             ELSE trim_end(truncated) \o as_bytes(Dots)
    ELSE s

truncate_with_ellipsis(s, max_chars) ==
    LET found == nth(char_indices(s), max_chars)
    IN  IF found.some
        THEN LET truncated == slice_to(s, found.item.idx)
             IN  IF truncated = Panic THEN Panic
                 ELSE trim_end(truncated) \o as_bytes(Dots)
        ELSE s

XmlChars == {"&", "<", ">", "\"", "'", "a"}

\* str::replace with a character as the pattern
RECURSIVE replace(_, _, _)
replace(s, from, to) ==
    IF s = <<>> THEN <<>>
    ELSE (IF Head(s) = from THEN to ELSE << Head(s) >>) \o replace(Tail(s), from, to)

\* "&amp;", "&lt;", "&gt;", "&quot;", "&apos;"
Entity(c) ==
    CASE c = "&" -> <<"&", "a", "m", "p", ";">>
      [] c = "<" -> <<"&", "l", "t", ";">>
      [] c = ">" -> <<"&", "g", "t", ";">>
      [] c = "\"" -> <<"&", "q", "u", "o", "t", ";">>
      [] c = "'" -> <<"&", "a", "p", "o", "s", ";">>

\* Variant: the ampersand is replaced last.
xml_escape_amp_last(raw) ==
    replace(replace(replace(replace(replace(raw, "<", Entity("<")), ">", Entity(">")),
                            "\"", Entity("\"")), "'", Entity("'")), "&", Entity("&"))

xml_escape(raw) ==
    replace(replace(replace(replace(replace(raw, "&", Entity("&")), "<", Entity("<")),
                            ">", Entity(">")), "\"", Entity("\"")), "'", Entity("'"))

\* The bytes a command writes to stdout and stderr: a letter, a blank, and a
\* byte that is not valid UTF-8.
OutBytes == {"h", " ", "xFF"}

\* String::from_utf8_lossy: an invalid byte becomes U+FFFD.
from_utf8_lossy(bytes) == [i \in 1..Len(bytes) |-> IF bytes[i] = "xFF" THEN "U+FFFD" ELSE bytes[i]]

\* str::trim
trim(text) ==
    LET inked == {i \in 1..Len(text) : ~is_whitespace(text[i])}
    IN  IF inked = {} THEN <<>>
        ELSE SubSeq(text, CHOOSE i \in inked : \A j \in inked : i <= j,
                          CHOOSE i \in inked : \A j \in inked : i >= j)

\* std::process::Output, or the failure to spawn
Output(spawn, success, stdout, stderr) ==
    [spawn |-> spawn, success |-> success, stdout |-> stdout, stderr |-> stderr]

OkText(text) == [ok |-> TRUE, err |-> <<>>, text |-> text]

\* Variant: stdout is given up only when it is empty.
run_capture_no_trim(output) ==
    IF ~output.spawn THEN Err(<<"Failed", "to", "spawn", "command">>)
    ELSE LET text == from_utf8_lossy(output.stdout)
         IN  IF text = <<>> THEN OkText(from_utf8_lossy(output.stderr))
             ELSE OkText(text)

run_capture(output) ==
    IF ~output.spawn THEN Err(<<"Failed", "to", "spawn", "command">>)
    ELSE LET text == from_utf8_lossy(output.stdout)
         IN  IF trim(text) = <<>> THEN OkText(from_utf8_lossy(output.stderr))
             ELSE OkText(text)

Texts(alphabet) == UNION {[1..k -> alphabet] : k \in 0..MaxLen}

NoEval == [f |-> "", s |-> <<>>, max_chars |-> 0, out |-> <<>>, done |-> FALSE]

----------------------------------------------------------------------------
(* The state machine *)

DaemonAlive(p, h) ==
    CASE p = "windows" -> DaemonCount(h) > 0
      [] p = "macos" -> h.proc
      [] p = "linux" -> h.svc = "active"
      [] OTHER -> FALSE

NoCommand ==
    [cmd |-> "none", pre |-> CleanHost, trace |-> <<>>, res |-> Ok, out |-> NoOutput]

Record(cmd, r) ==
    [cmd |-> cmd, pre |-> host, trace |-> r.trace, res |-> r.res, out |-> r.out]

\* A delete of an artifact that was there has failed in this command.
DeleteFailed(r) ==
    \/ host.task /\ CalledFail(r.trace, "schtasks /Delete")
    \/ host.runKey /\ CalledFail(r.trace, "reg DELETE")

\* Bounds on the number of record_crash and of report_task calls.
MaxCrashes == 3
MaxReports == 3

NoCall ==
    [op |-> "none", error |-> <<>>, ret |-> None,
     prev |-> [op |-> "none", error |-> <<>>]]

Returned(op, error, ret) ==
    [op |-> op, error |-> error, ret |-> ret,
     prev |-> [op |-> rlast.op, error |-> rlast.error]]

\* A workspace with neither file, no call made.
InitWorkspace ==
    /\ crashFile = NoFile
    /\ tasksFile = NoFile
    /\ now = 0
    /\ rlast = NoCall
    /\ delivered = [i \in 1..MaxCrashes |-> 0]
    /\ reports = <<>>
    /\ callers = NoCallers

\* A host with nothing installed, no command run.
InitHost ==
    /\ host = CleanHost
    /\ wrap = NoWrapper
    /\ eval = NoEval
    /\ last = NoCommand
    /\ cleanupFailed = FALSE
    /\ taskOverKey = FALSE
    /\ stopped = FALSE
    /\ seq = 0

Init ==
    /\ platform \in {"macos", "linux", "windows", "other"}
    /\ homeOk \in (IF platform \in {"macos", "linux"} THEN BOOLEAN ELSE {TRUE})
    /\ InitHost
    /\ InitWorkspace

Install ==
    \E o \in InstallInputs(platform) :
      \E r \in {install(platform, homeOk, host, o)} :
            /\ host' = r.host
            /\ last' = Record("install", r)
            /\ cleanupFailed' = (cleanupFailed \/ DeleteFailed(r))
            /\ taskOverKey' = (taskOverKey \/ (host.runKey /\ r.res.ok /\
                                  ~Called(r.trace, "reg ADD") /\ platform = "windows"))
            /\ seq' = IF r.res.ok THEN 1 ELSE seq
            /\ UNCHANGED <<platform, homeOk, stopped>>
    /\ UNCHANGED <<resVars, wrap, eval, callers>>

Start ==
    \E o \in StartInputs(platform) :
      \E r \in {start(platform, homeOk, host, o)} :
            /\ host' = r.host
            /\ last' = Record("start", r)
            /\ stopped' = FALSE
            /\ seq' = IF r.res.ok /\ seq >= 1 THEN 2 ELSE seq
            /\ UNCHANGED <<platform, homeOk, cleanupFailed, taskOverKey>>
    /\ UNCHANGED <<resVars, wrap, eval, callers>>

Stop ==
    \E o \in StopInputs(platform) :
      \E r \in {stop(platform, homeOk, host, o)} :
            /\ host' = r.host
            /\ last' = Record("stop", r)
            /\ stopped' = IF platform = "windows"
                          THEN (stopped \/ (CalledOk(r.trace, "schtasks /End") /\
                                            CalledOk(r.trace, "powershell Stop-Process")))
                          ELSE stopped
            /\ seq' = IF seq = 2 THEN 3 ELSE seq
            /\ UNCHANGED <<platform, homeOk, cleanupFailed, taskOverKey>>
    /\ UNCHANGED <<resVars, wrap, eval, callers>>

Status ==
    \E o \in StatusInputs(platform) :
      \E r \in {status(platform, homeOk, host, o)} :
            /\ host' = r.host
            /\ last' = Record("status", r)
            /\ UNCHANGED <<platform, homeOk, cleanupFailed, taskOverKey, stopped, seq>>
    /\ UNCHANGED <<resVars, wrap, eval, callers>>

Uninstall ==
    \E o \in UninstallInputs(platform) :
      \E r \in {uninstall(platform, homeOk, host, o)} :
            /\ host' = r.host
            /\ last' = Record("uninstall", r)
            /\ cleanupFailed' = (cleanupFailed \/ DeleteFailed(r))
            /\ seq' = 0
            /\ UNCHANGED <<platform, homeOk, taskOverKey, stopped>>
    /\ UNCHANGED <<resVars, wrap, eval, callers>>

\* The restart loop of the wrapper script (build_windows_supervisor_wrapper):
\* after the daemon's exit, "goto run_loop" launches the daemon again.
WrapperNext(pc) == IF pc = "backoff" THEN "daemon" ELSE pc

WrapperStep ==
    /\ platform = "windows"
    /\ \E w \in {"taskW", "detW"} :
        /\ host[w] = "backoff"
        /\ host' = [host EXCEPT ![w] = WrapperNext(host[w])]
    /\ last' = NoCommand
    /\ UNCHANGED <<platform, homeOk, cleanupFailed, taskOverKey, stopped, seq>>
    /\ UNCHANGED <<resVars, wrap, eval, callers>>

\* The daemon process exits by itself.
DaemonExit ==
    /\ \/ /\ platform = "windows"
          /\ \E w \in {"taskW", "detW"} :
                /\ host[w] = "daemon"
                /\ host' = [host EXCEPT ![w] = "backoff"]
       \/ /\ platform = "macos"
          /\ host.proc
          /\ host' = [host EXCEPT !.proc = FALSE]
       \/ /\ platform = "linux"
          /\ host.svc = "active"
          /\ host' = [host EXCEPT !.svc = "activating"]
    /\ last' = NoCommand
    /\ UNCHANGED <<platform, homeOk, cleanupFailed, taskOverKey, stopped, seq>>
    /\ UNCHANGED <<resVars, wrap, eval, callers>>

\* The native restart policies: KeepAlive (plist), Restart=always (unit).
NativeRestart ==
    /\ \/ /\ platform = "macos"
          /\ host.svc = "loaded" /\ ~host.proc
          /\ host' = [host EXCEPT !.proc = TRUE]
       \/ /\ platform = "linux"
          /\ host.svc = "activating"
          /\ host' = [host EXCEPT !.svc = "active"]
    /\ last' = NoCommand
    /\ UNCHANGED <<platform, homeOk, cleanupFailed, taskOverKey, stopped, seq>>
    /\ UNCHANGED <<resVars, wrap, eval, callers>>

\* The user logs on: the ONLOGON task and the Run key start the wrapper.
Logon ==
    /\ platform = "windows"
    /\ host.wrapper /\ (host.task \/ host.runKey)
    /\ host' = [host EXCEPT
                  !.taskW = IF host.task THEN Launched(host.taskW) ELSE host.taskW,
                  !.detW = IF host.runKey THEN Launched(host.detW) ELSE host.detW]
    /\ stopped' = FALSE
    /\ last' = NoCommand
    /\ UNCHANGED <<platform, homeOk, cleanupFailed, taskOverKey, seq>>
    /\ UNCHANGED <<resVars, wrap, eval, callers>>

Next ==
    \/ Install
    \/ Start
    \/ Stop
    \/ Status
    \/ Uninstall
    \/ WrapperStep
    \/ DaemonExit
    \/ NativeRestart
    \/ Logon

Spec == Init /\ [][Next]_vars

----------------------------------------------------------------------------
(* The state machine of the resilience collaborator: the daemon and its     *)
(* supervisor call record_crash, consume_crash and report_task one after    *)
(* the other on one workspace.                                              *)

RecordCrash ==
    /\ now < MaxCrashes
    /\ \E e \in ErrTexts : \E w \in FsOutcomes :
          /\ crashFile' = record_crash(crashFile, e, now + 1, now + 1, w)
          /\ rlast' = Returned("record_crash", e, None)
    /\ now' = now + 1
    /\ UNCHANGED <<tasksFile, delivered, reports>>
    /\ UNCHANGED <<svcVars, wrap, eval, callers>>

ConsumeCrash ==
    /\ \E rd \in FsOutcomes : \E rm \in FsOutcomes :
        \E r \in {consume_crash(crashFile, rd, rm)} :
          /\ crashFile' = r.file
          /\ rlast' = Returned("consume_crash", <<>>, r.ret)
          /\ delivered' = IF r.ret.some
                           THEN [delivered EXCEPT ![crashFile.id] =
                                                    IF @ < 2 THEN @ + 1 ELSE @]
                           ELSE delivered
    /\ UNCHANGED <<tasksFile, now, reports>>
    /\ UNCHANGED <<svcVars, wrap, eval, callers>>

ReportTask ==
    /\ now < MaxReports
    /\ \E t \in Titles : \E d \in Details :
        \E rd \in FsOutcomes : \E w \in FsOutcomes :
          /\ tasksFile' = report_task(tasksFile, t, d, now + 1, rd, w)
          /\ reports' = Append(reports, [title |-> t, detail |-> d, time |-> now + 1])
          /\ rlast' = Returned("report_task", <<>>, None)
    /\ now' = now + 1
    /\ UNCHANGED <<crashFile, delivered>>
    /\ UNCHANGED <<svcVars, wrap, eval, callers>>

InitDaemon ==
    /\ platform \in {"macos", "linux", "windows", "other"}
    /\ homeOk = TRUE
    /\ InitHost
    /\ InitWorkspace

NextCrash ==
    \/ RecordCrash
    \/ ConsumeCrash

SpecCrash == InitDaemon /\ [][NextCrash]_vars

NextLog == ReportTask

SpecLog == InitDaemon /\ [][NextLog]_vars

\* A block of the log that report_task has not written.
Foreign ==
    [class |-> "FOREIGN", title |-> "notes", time |-> 0, detail |-> <<>>]

\* The log file is absent, empty, holds the header only, or holds text that
\* does not start with the header.
InitLogAny ==
    /\ platform \in {"macos", "linux", "windows", "other"}
    /\ homeOk = TRUE
    /\ InitHost
    /\ crashFile = NoFile
    /\ tasksFile \in {NoFile, File(<<>>, 0), File(<<Header>>, 0), File(<<Foreign>>, 0)}
    /\ now = 0
    /\ rlast = NoCall
    /\ delivered = [i \in 1..MaxCrashes |-> 0]
    /\ reports = <<>>
    /\ callers = NoCallers

SpecLogAny == InitLogAny /\ [][NextLog]_vars

----------------------------------------------------------------------------
(* report_task called from two threads at the same time: each call is its   *)
(* file system calls, one after the other, and the calls of the two threads *)
(* come in any order.                                                       *)

\* Utc::now() and format!: the entry is built.
ReportBegin(p) ==
    /\ callers[p].pc = "idle"
    /\ \E t \in Titles : \E d \in Details :
          /\ callers' = [callers EXCEPT ![p] = [@ EXCEPT !.pc = "exists", !.title = t,
                                                         !.detail = d, !.time = now + 1]]
          /\ reports' = Append(reports, [title |-> t, detail |-> d, time |-> now + 1])
    /\ now' = now + 1
    /\ UNCHANGED <<crashFile, tasksFile, rlast, delivered>>
    /\ UNCHANGED <<svcVars, wrap, eval>>

\* tasks_file.exists(): without the file the content is the header.
ReportExists(p) ==
    /\ callers[p].pc = "exists"
    /\ callers' = [callers EXCEPT ![p] =
                      IF tasksFile.exists
                      THEN [@ EXCEPT !.pc = "read", !.existed = TRUE]
                      ELSE [@ EXCEPT !.pc = "write", !.content = <<Header>>]]
    /\ UNCHANGED <<resVars, svcVars, wrap, eval>>

\* fs::read_to_string(&tasks_file).unwrap_or_default()
ReportRead(p) ==
    /\ callers[p].pc = "read"
    /\ \E rd \in FsOutcomes :
          callers' = [callers EXCEPT ![p] =
                        [@ EXCEPT !.pc = "write",
                                  !.content = IF rd THEN tasksFile.text ELSE <<>>]]
    /\ UNCHANGED <<resVars, svcVars, wrap, eval>>

\* content.push_str(&entry); let _ = fs::write(tasks_file, content);
ReportWrite(p) ==
    /\ callers[p].pc = "write"
    /\ \E w \in FsOutcomes :
          tasksFile' =
             IF w THEN File(callers[p].content
                              \o <<Entry(callers[p].title, callers[p].detail, callers[p].time)>>, 0)
             ELSE tasksFile
    /\ callers' = [callers EXCEPT ![p] = [@ EXCEPT !.pc = "done"]]
    /\ rlast' = Returned("report_task", <<>>, None)
    /\ UNCHANGED <<crashFile, now, delivered, reports>>
    /\ UNCHANGED <<svcVars, wrap, eval>>

NextRace ==
    \E p \in Callers :
        \/ ReportBegin(p)
        \/ ReportExists(p)
        \/ ReportRead(p)
        \/ ReportWrite(p)

SpecRace == InitLogAny /\ [][NextRace]_vars

----------------------------------------------------------------------------
(* The state machine of the supervisor wrapper: the command interpreter     *)
(* runs the script line by line, the daemon child runs and exits, seconds   *)
(* pass while the script waits.                                             *)

\* The wrapper has just been started by the task, the Run key or Start; the
\* state file of an earlier daemon may be there.
InitWrapper ==
    /\ platform = "windows"
    /\ homeOk = TRUE
    /\ host = CleanHost
    /\ last = NoCommand
    /\ cleanupFailed = FALSE
    /\ taskOverKey = FALSE
    /\ stopped = FALSE
    /\ seq = 0
    /\ InitWorkspace
    /\ eval = NoEval
    /\ \E present \in SUBSET {StatePath} :
          wrap = [NoWrapper EXCEPT !.script = WrapperScript, !.pc = 1, !.files = present]

ScriptStep ==
    /\ wrap.pc \in 1..Len(wrap.script)
    /\ ~wrap.up
    /\ wrap.waiting => wrap.wait = 0
    /\ wrap' = exec(wrap)
    /\ UNCHANGED <<svcVars, resVars, eval, callers>>

ScriptDaemonExit ==
    /\ wrap.up
    /\ \E code \in ExitCodes : wrap' = daemon_exit(wrap, code)
    /\ UNCHANGED <<svcVars, resVars, eval, callers>>

\* The running daemon writes its state file.
ScriptDaemonWritesState ==
    /\ wrap.up
    /\ StatePath \notin wrap.files
    /\ wrap' = [wrap EXCEPT !.files = @ \cup {StatePath}]
    /\ UNCHANGED <<svcVars, resVars, eval, callers>>

\* A second passes while the script is at its timeout line.
ScriptTick ==
    /\ wrap.waiting /\ wrap.wait > 0
    /\ wrap' = [wrap EXCEPT !.wait = @ - 1, !.sinceExit = IF @ < 9 THEN @ + 1 ELSE @]
    /\ UNCHANGED <<svcVars, resVars, eval, callers>>

NextWrapper ==
    \/ ScriptStep
    \/ ScriptDaemonExit
    \/ ScriptDaemonWritesState
    \/ ScriptTick

\* The interpreter goes on with the script and time goes on; the daemon may
\* run for ever.
SpecWrapper ==
    InitWrapper /\ [][NextWrapper]_vars /\ WF_vars(ScriptStep) /\ WF_vars(ScriptTick)

----------------------------------------------------------------------------
(* The text functions applied to every small input. *)

InitEval ==
    /\ platform = "other"
    /\ homeOk = TRUE
    /\ host = CleanHost
    /\ wrap = NoWrapper
    /\ last = NoCommand
    /\ cleanupFailed = FALSE
    /\ taskOverKey = FALSE
    /\ stopped = FALSE
    /\ seq = 0
    /\ InitWorkspace
    /\ \/ \E text \in Texts(Chars), n \in 0..MaxChars :
            eval = [NoEval EXCEPT !.f = "truncate_with_ellipsis",
                                  !.s = as_bytes(text), !.max_chars = n]
       \/ \E raw \in Texts(XmlChars) :
            eval = [NoEval EXCEPT !.f = "xml_escape", !.s = raw]
       \/ \E success \in BOOLEAN, stdout \in Texts(OutBytes), stderr \in Texts(OutBytes) :
            eval = [NoEval EXCEPT !.f = "run_capture",
                                  !.s = Output(TRUE, success, stdout, stderr)]
       \/ eval = [NoEval EXCEPT !.f = "run_capture", !.s = Output(FALSE, FALSE, <<>>, <<>>)]

Truncate ==
    /\ eval.f = "truncate_with_ellipsis" /\ ~eval.done
    /\ eval' = [eval EXCEPT !.out = truncate_with_ellipsis(eval.s, eval.max_chars),
                            !.done = TRUE]
    /\ UNCHANGED <<svcVars, resVars, wrap, callers>>

XmlEscape ==
    /\ eval.f = "xml_escape" /\ ~eval.done
    /\ eval' = [eval EXCEPT !.out = xml_escape(eval.s), !.done = TRUE]
    /\ UNCHANGED <<svcVars, resVars, wrap, callers>>

RunCapture ==
    /\ eval.f = "run_capture" /\ ~eval.done
    /\ eval' = [eval EXCEPT !.out = run_capture(eval.s), !.done = TRUE]
    /\ UNCHANGED <<svcVars, resVars, wrap, callers>>

NextEval ==
    \/ Truncate
    \/ XmlEscape
    \/ RunCapture

SpecEval == InitEval /\ [][NextEval]_vars

----------------------------------------------------------------------------
(* Properties of the lifecycle commands *)

Windows == platform = "windows"
Just(cmd) == last.cmd = cmd

\* The texts of StderrTexts that are access-denied messages.
DeniedTexts ==
    { <<"ERROR:", "Access", "is", "denied">>,
      <<"ERROR:", "ACCESO", "DENEGADO">>,
      <<"Permiso", "denegado">> }

\* The first task creation of the Install that has just returned failed with
\* an access-denied message.
HighestDenied ==
    /\ Windows /\ Just("install")
    /\ \E i \in 1..Len(last.trace) :
          /\ last.trace[i].tool = "schtasks /Create HIGHEST"
          /\ ~last.trace[i].ok /\ last.trace[i].spawn
          /\ last.trace[i].stderr \in DeniedTexts

\* C1 as stated: whenever the first scheduled-task creation (run level
\* HIGHEST) fails with an access-denied message, Install ends with the
\* scheduled task absent, the Run key present and the wrapper script on disk.
C1_DeniedEndsInRegistryFallback ==
    HighestDenied => ~host.task /\ host.runKey /\ host.wrapper

\* C1 amended: after an access-denied failure of the HIGHEST creation the
\* creation is retried with run level LIMITED.  If the retry succeeds, Install
\* succeeds with the scheduled task present.  If the retry fails, Install
\* succeeds exactly when the Run key could be written, and then the Run key is
\* present and the task is absent unless a task that existed before Install
\* could not be deleted.  Whenever Install succeeds the wrapper script exists.
C1_DeniedRetriesThenFallsBack ==
    HighestDenied =>
        /\ Called(last.trace, "schtasks /Create LIMITED")
        /\ CalledOk(last.trace, "schtasks /Create LIMITED") =>
              last.res.ok /\ host.task /\ ~Called(last.trace, "reg ADD")
        /\ CalledFail(last.trace, "schtasks /Create LIMITED") =>
              /\ Called(last.trace, "reg ADD")
              /\ last.res.ok = CalledOk(last.trace, "reg ADD")
              /\ last.res.ok => host.runKey
              /\ host.task => last.pre.task /\ CalledFail(last.trace, "schtasks /Delete")
        /\ last.res.ok => host.wrapper

C1_Witness ==
    /\ HighestDenied
    /\ CalledFail(last.trace, "schtasks /Create LIMITED")
    /\ last.res.ok /\ host.runKey /\ ~host.task /\ host.wrapper

\* C2 as stated: Stop returns success on macOS, Linux and Windows in every
\* host state, the home directory resolvable or not, whatever its external
\* tools do.
C2_StopAlwaysSucceeds ==
    Just("stop") /\ platform \in {"macos", "linux", "windows"} => last.res.ok

\* C2 amended: Stop returns success on Linux and Windows in every host state
\* and for every outcome of its tools, and on macOS whenever the home
\* directory can be resolved; on macOS without a home directory it fails
\* before it calls any tool.
C2_StopSucceedsGivenHome ==
    Just("stop") /\ platform \in {"macos", "linux", "windows"} =>
        /\ (platform = "macos" => homeOk) => last.res.ok
        /\ platform = "macos" /\ ~homeOk => ~last.res.ok /\ last.trace = <<>>

C2_Witness ==
    /\ Just("stop") /\ platform = "macos" /\ homeOk
    /\ CalledFail(last.trace, "launchctl stop")
    /\ CalledFail(last.trace, "launchctl unload")
    /\ last.res.ok

\* The error run_checked makes of a failed call.
ErrorOf(call) ==
    IF call.spawn THEN <<"Command", "failed:">> \o call.stderr
    ELSE <<"Failed", "to", "spawn", "command">>

\* C3: Windows Start runs the scheduled task first.  If that succeeds, Start
\* succeeds and the wrapper is not launched directly.  If it fails and the Run
\* key exists, the wrapper is launched detached and Start returns what the
\* launch returns.  If it fails and no Run key exists, Start returns exactly
\* the task-run error and launches nothing.
C3_StartFallbackChain ==
    Windows /\ Just("start") =>
        /\ Len(last.trace) >= 1
        /\ last.trace[1].tool = "schtasks /Run"
        /\ last.trace[1].ok =>
              /\ last.res = Ok
              /\ ~Called(last.trace, "cmd /C start")
              /\ host.detW = last.pre.detW
        /\ ~last.trace[1].ok /\ last.pre.runKey =>
              /\ Called(last.trace, "cmd /C start")
              /\ last.res.ok = CalledOk(last.trace, "cmd /C start")
              /\ host.taskW = last.pre.taskW
        /\ ~last.trace[1].ok /\ ~last.pre.runKey =>
              /\ last.res = Err(ErrorOf(last.trace[1]))
              /\ ~Called(last.trace, "cmd /C start")
              /\ host = last.pre

C3_Witness ==
    /\ Windows /\ Just("start")
    /\ ~last.trace[1].ok /\ last.pre.runKey /\ last.pre.task
    /\ CalledOk(last.trace, "cmd /C start")
    /\ last.pre.detW = "off" /\ host.detW = "daemon"

\* C4: Windows Status, when the scheduled-task query succeeds: the service is
\* reported running iff the task state is Running or the process scan finds a
\* daemon process; the mode is scheduled-task when the task is Running,
\* startup-registry when only the scan is positive, and stopped exactly when
\* the service is reported not running.
C4_StatusVerdictIsOr ==
    Windows /\ Just("status") /\ CalledOk(last.trace, "schtasks /Query") =>
        LET task_running == last.pre.taskW # "off"
            scan_found == CalledOk(last.trace, "powershell Count") /\ DaemonCount(last.pre) > 0
        IN  /\ last.out.verdict \in {"running", "not running"}
            /\ (last.out.verdict = "running") = (task_running \/ scan_found)
            /\ task_running => last.out.mode = "scheduled-task mode"
            /\ ~task_running /\ scan_found => last.out.mode = "startup-registry mode"
            /\ (last.out.mode = "stopped") = (last.out.verdict = "not running")

C4_Witness ==
    /\ Windows /\ Just("status") /\ CalledOk(last.trace, "schtasks /Query")
    /\ last.pre.taskW = "off" /\ last.pre.detW = "daemon"
    /\ CalledOk(last.trace, "powershell Count")
    /\ last.out.verdict = "running" /\ last.out.mode = "startup-registry mode"

ArtifactsExist(p, h) ==
    CASE p = "windows" -> h.task \/ h.runKey
      [] p \in {"macos", "linux"} -> h.defFile
      [] OTHER -> FALSE

\* The mechanism that supervises the daemon is not active: the scheduled
\* task is not in state Running, the launchd job is not loaded.
SupervisorOff(p, h) ==
    CASE p = "windows" -> ~(h.task /\ h.taskW # "off")
      [] p = "macos" -> h.svc # "loaded"
      [] OTHER -> TRUE

ReportsRunning(out) == out.verdict \in {"running", "running/loaded", "active"}
ReportsNotRunning(out) == out.verdict # "none" /\ ~ReportsRunning(out)

C6_InstallLeavesExactlyOne ==
    Windows /\ Just("install") /\ last.res.ok /\ ~last.pre.task /\ ~last.pre.runKey =>
        /\ host.task # host.runKey
        /\ host.wrapper

C6_Witness ==
    /\ Windows /\ Just("install") /\ last.res.ok /\ ~last.pre.task /\ ~last.pre.runKey
    /\ host.runKey /\ ~host.task /\ host.wrapper

\* C7 as stated: the scheduled task and the Run key exist at the same time
\* only if some earlier deletion of the task or of the Run key failed.
C7_BothOnlyAfterFailedCleanup ==
    Windows /\ host.task /\ host.runKey => cleanupFailed

\* C7 amended: the scheduled task and the Run key exist at the same time only
\* if some earlier deletion of an existing task or Run key failed, or some
\* earlier Install created the scheduled task while a Run key written by a
\* previous Install was present (Install never deletes the Run key).
C7_BothOnlyAfterFailedCleanupOrReinstall ==
    Windows /\ host.task /\ host.runKey => cleanupFailed \/ taskOverKey

C7_Witness ==
    Windows /\ host.task /\ host.runKey /\ cleanupFailed /\ ~taskOverKey

\* C8: once Stop has completed with both sub-steps succeeding (task ended,
\* daemon processes terminated), no daemon process is running, and the
\* wrapper's restart loop launches none, until a later Start or logon.
C8_StopKeepsDaemonStopped ==
    Windows /\ stopped => ~DaemonAlive(platform, host)

----------------------------------------------------------------------------
(* Properties of the resilience collaborator *)

C26_ConcurrentReportsKeepBoth ==
    (\A p \in Callers : callers[p].pc = "done") =>
        \A p \in Callers :
            \E i \in 1..Len(tasksFile.text) :
                tasksFile.text[i] = Entry(callers[p].title, callers[p].detail, callers[p].time)

Args(block) == [title |-> block.title, detail |-> block.detail, time |-> block.time]

IsPrefix(s, t) == Len(s) <= Len(t) /\ SubSeq(t, 1, Len(s)) = s

----------------------------------------------------------------------------
(* Further properties of the lifecycle commands *)

\* C12: on an unsupported platform each of the five commands fails with the
\* same unsupported-platform error, calls no external tool, writes no file
\* and prints nothing.
C12_UnsupportedPlatformFails ==
    platform = "other" /\ ~Just("none") =>
        /\ last.res = Unsupported
        /\ last.trace = <<>>
        /\ host = last.pre /\ host = CleanHost
        /\ last.out = NoOutput

C12_Witness ==
    platform = "other" /\ Just("uninstall") /\ last.res = Unsupported /\ host = CleanHost

Unix == platform \in {"macos", "linux"}

\* C13 as stated: on macOS and Linux, Uninstall returns failure if and only
\* if the definition file exists and deleting it fails; Uninstall on a host
\* where nothing is installed succeeds; after a successful Uninstall the
\* definition file does not exist.
C13_UninstallFailsIffRemoveFails ==
    Unix /\ Just("uninstall") =>
        /\ ~last.res.ok = (last.pre.defFile /\ CalledFail(last.trace, "fs::remove_file"))
        /\ last.pre = CleanHost => last.res.ok
        /\ last.res.ok => ~host.defFile

\* C13 amended: on macOS and Linux, when the home directory can be resolved,
\* Uninstall returns failure if and only if the definition file exists and
\* deleting it fails, Uninstall on a host where nothing is installed
\* succeeds, and after a successful Uninstall the definition file does not
\* exist.  When the home directory cannot be resolved, Uninstall fails with
\* that error and deletes nothing.
C13_UninstallFailsIffRemoveFailsGivenHome ==
    Unix /\ Just("uninstall") =>
        /\ homeOk =>
              /\ ~last.res.ok = (last.pre.defFile /\ CalledFail(last.trace, "fs::remove_file"))
              /\ ~last.res.ok => last.res = RemoveErr /\ host.defFile
              /\ last.pre = CleanHost => last.res.ok
              /\ last.res.ok => ~host.defFile
        /\ ~homeOk =>
              /\ last.res = NoHome
              /\ ~Called(last.trace, "fs::remove_file")
              /\ host.defFile = last.pre.defFile

C13_Witness ==
    /\ platform = "macos" /\ Just("uninstall") /\ homeOk
    /\ last.pre.defFile /\ last.pre.svc = "loaded"
    /\ CalledFail(last.trace, "fs::remove_file")
    /\ last.res = RemoveErr /\ host.defFile

Tools(trace) == [i \in 1..Len(trace) |-> trace[i].tool]

\* C14: Windows Uninstall ends the task, stops the daemon processes, deletes
\* the task, deletes the Run key and deletes the wrapper file if it exists,
\* in that order, each step whatever the outcome of the earlier ones, and
\* returns success.
C14_WindowsUninstallBestEffort ==
    Windows /\ Just("uninstall") =>
        /\ last.res = Ok
        /\ Tools(last.trace) =
              <<"schtasks /End", "powershell Stop-Process", "schtasks /Delete", "reg DELETE">>
                 \o (IF last.pre.wrapper THEN <<"fs::remove_file wrapper">> ELSE <<>>)

\* Every step of an Uninstall of a host that holds all three artifacts failed.
C14_Witness ==
    /\ Windows /\ Just("uninstall") /\ last.res = Ok
    /\ last.pre.task /\ last.pre.runKey /\ last.pre.wrapper
    /\ \A i \in 1..Len(last.trace) : ~last.trace[i].ok
    /\ Len(last.trace) = 5
    /\ host.task /\ host.runKey /\ host.wrapper

\* The calls that only ask for the state of the host.
QueryTools ==
    {"schtasks /Query", "reg QUERY", "powershell Count", "launchctl list",
     "systemctl is-active"}

StateChanging(call) == call.tool \notin QueryTools

\* C15 as stated: whenever a state-changing sub-step of Install, Start or
\* Status fails after another one has taken effect, the command returns
\* failure.
C15_NoSuccessAfterFailedStep ==
    (Just("install") \/ Just("start") \/ Just("status")) =>
        ((\E i, j \in 1..Len(last.trace) :
              /\ i < j
              /\ StateChanging(last.trace[i]) /\ last.trace[i].ok
              /\ StateChanging(last.trace[j]) /\ ~last.trace[j].ok)
           => ~last.res.ok)

\* The failed sub-steps after which Install or Start still returns success.
Tolerated(call) ==
    \/ /\ platform = "linux" /\ Just("install")
       /\ call.tool \in {"systemctl daemon-reload", "systemctl enable"}
    \/ /\ Windows /\ Just("install")
       /\ call.tool \in {"schtasks /Delete", "schtasks /Create HIGHEST",
                          "schtasks /Create LIMITED"}
       /\ last.trace[Len(last.trace)].ok
       /\ last.trace[Len(last.trace)].tool \in
              {"schtasks /Create HIGHEST", "schtasks /Create LIMITED", "reg ADD"}
    \/ /\ Windows /\ Just("start")
       /\ call.tool = "schtasks /Run"
       /\ CalledOk(last.trace, "cmd /C start")

\* C15 amended: when Install, Start or Status returns success, every failed
\* state-changing sub-step is one of: Linux Install's daemon-reload and
\* enable; Windows Install's deletion of the old task and its task creations,
\* when a later creation or the Run-key write has succeeded; Windows Start's
\* task run, when the detached launch of the wrapper has succeeded.
C15_SuccessOnlyAfterToleratedFailures ==
    (Just("install") \/ Just("start") \/ Just("status")) /\ last.res.ok =>
        \A j \in 1..Len(last.trace) :
            StateChanging(last.trace[j]) /\ ~last.trace[j].ok => Tolerated(last.trace[j])

\* Linux Install has written the unit file, the enable has failed, Install
\* returns success.
C15_Witness ==
    /\ platform = "linux" /\ Just("install") /\ last.res.ok
    /\ CalledOk(last.trace, "fs::write unit")
    /\ CalledFail(last.trace, "systemctl enable")
    /\ host.defFile

Creations(trace) ==
    {i \in 1..Len(trace) :
        trace[i].tool \in {"schtasks /Create HIGHEST", "schtasks /Create LIMITED"}}

\* C19: in a Windows Install the creation with run level LIMITED is
\* attempted exactly when the creation with HIGHEST failed with an
\* access-denied message, in whatever case; after any other failure of the
\* HIGHEST creation there is no second creation and the error reaches the
\* fallback as it was.  There are at most two creations, and the Run key is
\* written only after the last creation of the Install has failed.
C19_LimitedOnlyAfterDenied ==
    Windows /\ Just("install") =>
        LET t == last.trace
            made == Creations(t)
        IN  /\ Called(t, "schtasks /Create LIMITED") = HighestDenied
            /\ Cardinality(made) <= 2
            /\ \A i \in made : t[i].tool = "schtasks /Create LIMITED" =>
                    i > 1 /\ t[i - 1].tool = "schtasks /Create HIGHEST" /\ ~t[i - 1].ok
            /\ CalledFail(t, "schtasks /Create HIGHEST") /\ ~HighestDenied =>
                    /\ Cardinality(made) = 1
                    /\ Called(t, "reg ADD")
                    /\ last.res.ok =>
                            \E i \in made : last.out.note = ErrorOf(t[i])
            /\ \A j \in 1..Len(t) : t[j].tool = "reg ADD" =>
                    /\ made # {}
                    /\ \A i \in made : i < j /\ ~t[i].ok
                    /\ j = Len(t)

\* An Install whose HIGHEST creation failed with an access-denied message in
\* capitals, whose LIMITED creation failed too, and which wrote the Run key.
C19_Witness ==
    /\ Windows /\ Just("install") /\ last.res.ok
    /\ Len(last.trace) = 5
    /\ last.trace[3].tool = "schtasks /Create HIGHEST"
    /\ last.trace[3].stderr = <<"ERROR:", "ACCESO", "DENEGADO">>
    /\ last.trace[4].tool = "schtasks /Create LIMITED" /\ ~last.trace[4].ok
    /\ last.trace[5].tool = "reg ADD" /\ last.trace[5].ok
    /\ last.out.note = ErrorOf(last.trace[4])

\* C20: a macOS Start calls launchctl load -w and then launchctl start, and
\* succeeds exactly when both have succeeded: after a failed load there is no
\* start and Start fails; after a successful load and a failed start Start
\* fails.  (Without a home directory the plist path is not known: Start fails
\* before it calls anything.)
C20_MacStartLoadsThenStarts ==
    platform = "macos" /\ Just("start") =>
        LET t == last.trace
        IN  /\ last.res.ok = (CalledOk(t, "launchctl load") /\ CalledOk(t, "launchctl start"))
            /\ homeOk => Len(t) >= 1 /\ t[1].tool = "launchctl load"
            /\ ~homeOk => t = <<>> /\ ~last.res.ok
            /\ \A j \in 1..Len(t) : t[j].tool = "launchctl start" =>
                    j = 2 /\ t[1].tool = "launchctl load" /\ t[1].ok
            /\ CalledFail(t, "launchctl load") =>
                    ~Called(t, "launchctl start") /\ ~last.res.ok
            /\ CalledOk(t, "launchctl load") /\ CalledFail(t, "launchctl start") =>
                    ~last.res.ok
            /\ Len(t) <= 2

\* A Start whose load succeeded and whose start failed.
C20_Witness ==
    /\ platform = "macos" /\ Just("start")
    /\ Len(last.trace) = 2
    /\ last.trace[1].tool = "launchctl load" /\ last.trace[1].ok
    /\ last.trace[2].tool = "launchctl start" /\ ~last.trace[2].ok
    /\ ~last.res.ok
    /\ host.svc = "loaded"

\* C21 as stated: Linux Start and Stop each call daemon-reload and then the
\* start or stop of the unit; a failed daemon-reload does not keep the start
\* or stop from being called and does not make the command fail.
C21_LinuxReloadIsBestEffort ==
    platform = "linux" /\ (Just("start") \/ Just("stop")) =>
        LET t == last.trace
            verb == IF Just("start") THEN "systemctl start" ELSE "systemctl stop"
        IN  /\ Len(t) = 2
            /\ t[1].tool = "systemctl daemon-reload"
            /\ t[2].tool = verb
            /\ ~t[1].ok /\ t[2].ok => last.res.ok

\* C21, amended: Linux Start calls daemon-reload and then the start of the
\* unit, both checked: after a failed daemon-reload the start is not called
\* and Start fails with the error of the daemon-reload; after a successful
\* one Start succeeds exactly when the start does.  Linux Stop calls only the
\* stop of the unit, no daemon-reload, and succeeds whatever the stop returns.
C21_LinuxStartChecksReload ==
    /\ platform = "linux" /\ Just("start") =>
          LET t == last.trace
          IN  /\ Len(t) >= 1 /\ t[1].tool = "systemctl daemon-reload"
              /\ ~t[1].ok => Len(t) = 1 /\ ~last.res.ok /\ last.res.err = ErrorOf(t[1])
              /\ t[1].ok => /\ Len(t) = 2
                            /\ t[2].tool = "systemctl start"
                            /\ last.res.ok = t[2].ok
    /\ platform = "linux" /\ Just("stop") =>
          /\ Len(last.trace) = 1
          /\ last.trace[1].tool = "systemctl stop"
          /\ last.res.ok

\* A Linux Start on an installed host whose daemon-reload failed: nothing
\* else was called, the daemon is not running.
C21_Witness ==
    /\ platform = "linux" /\ Just("start")
    /\ host.defFile
    /\ last.trace = <<Call("systemctl daemon-reload", Failed(Denied))>>
    /\ ~last.res.ok
    /\ ~host.proc

\* C23: on every platform and in every host state a Status command leaves
\* the host as it is: the definition file, the scheduled task, the Run key,
\* the wrapper script, the state of the service and the running daemon and
\* wrapper processes (last.pre is the host the command found).
C23_StatusIsReadOnly == Just("status") => host = last.pre

\* A Status on a Windows host with the task, the wrapper script and a running
\* daemon has returned and the host is as it was.
C23_Witness ==
    /\ Windows /\ Just("status") /\ last.res.ok
    /\ host.task /\ host.wrapper /\ host.taskW = "daemon"
    /\ last.pre.task /\ last.pre.wrapper /\ last.pre.taskW = "daemon"
    /\ last.out.verdict = "running"

\* The Uninstall that has just returned deleted what it found: no deletion of
\* a task, a Run key or a wrapper script that was there has failed.  (A
\* deletion of what is not there fails and leaves nothing behind.)
UninstallSucceeded ==
    /\ Windows /\ Just("uninstall")
    /\ ~(last.pre.task /\ CalledFail(last.trace, "schtasks /Delete"))
    /\ ~(last.pre.runKey /\ CalledFail(last.trace, "reg DELETE"))
    /\ ~(last.pre.wrapper /\ CalledFail(last.trace, "fs::remove_file wrapper"))

\* C25: after a Windows Uninstall whose deletions succeeded, whether it found
\* the scheduled task or the Run key of an Install, there is no scheduled
\* task, no Run key and no wrapper script, and the Status that follows
\* reports "not installed".
C25_UninstallUndoesInstall ==
    /\ [](UninstallSucceeded => ~host.task /\ ~host.runKey /\ ~host.wrapper)
    /\ [][UninstallSucceeded /\ last'.cmd = "status" =>
            /\ last'.res.ok
            /\ last'.out.verdict = "not installed"
            /\ ~host'.task /\ ~host'.runKey /\ ~host'.wrapper]_vars

\* A Status on a host without task, Run key and wrapper script, where a
\* wrapper process started from the Run key of an Install is still there:
\* the Uninstall has been, and Status reports "not installed".
C25_Witness ==
    /\ Windows /\ Just("status")
    /\ ~host.task /\ ~host.runKey /\ ~host.wrapper
    /\ host.detW # "off"
    /\ last.out.verdict = "not installed"

----------------------------------------------------------------------------
(* Properties of the supervisor wrapper *)

\* C16: the wrapper is an endless restart loop.  Whenever the daemon is
\* invoked the state file has been deleted; before every invocation but the
\* first the exit code of the previous run has been logged and the fixed
\* delay of 5 seconds has passed since that exit; the script never ends; and
\* whenever no daemon runs, whatever the exit code was, a daemon is launched
\* later on.
C16_WrapperRestartsForEver ==
    /\ [](/\ wrap.up => ~wrap.stateAtLaunch
          /\ wrap.up /\ wrap.launches >= 2 =>
                /\ wrap.exitLogged
                /\ wrap.delayAtLaunch = 5
          /\ wrap.pc \in 1..Len(wrap.script))
    /\ (~wrap.up) ~> wrap.up

\* The daemon has exited with code 255, the code is in the supervisor log,
\* the five seconds have passed and the daemon has been launched again.
C16_Witness ==
    /\ wrap.up /\ wrap.launches = 2
    /\ wrap.lastExit = 255 /\ wrap.log.text = "echo starting daemon attempt"
    /\ wrap.exitCode = 255 /\ wrap.delayAtLaunch = 5
    /\ SupervisorPath \in wrap.files

----------------------------------------------------------------------------
(* Properties of the text functions *)

\* The characters of a str.
CharsOf(s) == [i \in 1..Len(char_indices(s)) |-> char_indices(s)[i].c]

Truncated == eval.f = "truncate_with_ellipsis" /\ eval.done

\* C17 as stated: truncate_with_ellipsis returns a text of K <= N characters
\* unchanged, and for K > N returns exactly its first N characters followed
\* by "..." (for N = 0, just "...").
C17_TruncateKeepsFirstN ==
    Truncated =>
        LET text == CharsOf(eval.s)
            K == Len(text)
            N == eval.max_chars
        IN  /\ K <= N => eval.out = eval.s
            /\ K > N => eval.out = as_bytes(SubSeq(text, 1, N) \o Dots)
            /\ K > N /\ N = 0 => eval.out = as_bytes(Dots)

\* C17, amended: truncate_with_ellipsis returns a text of K <= N characters
\* unchanged; for K > N it returns the first N characters without the white
\* space they end in, followed by "...": exactly the first N characters when
\* the N-th is not white space, and just "..." for N = 0.
C17_TruncateKeepsTrimmedFirstN ==
    Truncated =>
        LET text == CharsOf(eval.s)
            K == Len(text)
            N == eval.max_chars
            kept == CHOOSE j \in 0..N :
                        /\ j = 0 \/ ~is_whitespace(text[j])
                        /\ \A i \in (j + 1)..N : is_whitespace(text[i])
        IN  /\ K <= N => eval.out = eval.s
            /\ K > N => eval.out = as_bytes(SubSeq(text, 1, kept) \o Dots)
            /\ K > N /\ N > 0 /\ ~is_whitespace(text[N]) =>
                    eval.out = as_bytes(SubSeq(text, 1, N) \o Dots)
            /\ K > N /\ N = 0 => eval.out = as_bytes(Dots)

\* A text of three characters, the second one white space after a character
\* of four bytes, has been cut to two.
C17_Witness ==
    /\ Truncated
    /\ eval.s = as_bytes(<<"crab", " ", "h">>)
    /\ eval.max_chars = 2
    /\ eval.out = as_bytes(<<"crab", ".", ".", ".">>)

Escaped == eval.f = "xml_escape" /\ eval.done

Reserved == {"&", "<", ">", "\"", "'"}

\* The characters of s after the first n.
Rest(s, n) == SubSeq(s, n + 1, Len(s))

EntityOrSelf(c) == IF c \in Reserved THEN Entity(c) ELSE <<c>>

\* out is the entity or the character itself of each character of raw, one
\* after the other.
RECURSIVE IsImage(_, _)
IsImage(out, raw) ==
    IF raw = <<>> THEN out = <<>>
    ELSE LET e == EntityOrSelf(Head(raw))
         IN  /\ Len(out) >= Len(e)
             /\ SubSeq(out, 1, Len(e)) = e
             /\ IsImage(Rest(out, Len(e)), Tail(raw))

\* C18: xml_escape replaces each of & < > " ' by its entity and keeps every
\* other character, in the order of the input; the only ampersands of the
\* result are those that start the entity of a reserved character of the
\* input (none is escaped again).
C18_XmlEscapeEachOnce ==
    Escaped =>
        /\ IsImage(eval.out, eval.s)
        /\ Cardinality({i \in 1..Len(eval.out) : eval.out[i] = "&"})
                = Cardinality({i \in 1..Len(eval.s) : eval.s[i] \in Reserved})
        /\ \A i \in 1..Len(eval.out) : eval.out[i] \notin Reserved \ {"&"}

\* <&a has been escaped to &lt;&amp;a.
C18_Witness ==
    /\ Escaped
    /\ eval.s = <<"<", "&", "a">>
    /\ eval.out = <<"&", "l", "t", ";", "&", "a", "m", "p", ";", "a">>

Captured == eval.f = "run_capture" /\ eval.done

Blank(bytes) == \A i \in 1..Len(bytes) : bytes[i] = " "

ValidUtf8(bytes) == \A i \in 1..Len(bytes) : bytes[i] # "xFF"

\* C22: run_capture fails exactly when the command cannot be spawned.  For a
\* command that was spawned it returns success whatever the exit status, and
\* the text is the command's stdout, or its stderr when stdout is empty or
\* all white space (the text of a stream being its bytes, an invalid one
\* replaced by U+FFFD).
C22_CaptureReturnsStdoutOrStderr ==
    Captured =>
        LET x == eval.s
            stream == IF Blank(x.stdout) THEN x.stderr ELSE x.stdout
        IN  /\ eval.out.ok = x.spawn
            /\ ~x.spawn => eval.out.err = <<"Failed", "to", "spawn", "command">>
            /\ x.spawn =>
                  /\ Len(eval.out.text) = Len(stream)
                  /\ \A i \in 1..Len(stream) :
                        eval.out.text[i] = IF stream[i] = "xFF" THEN "U+FFFD" ELSE stream[i]
                  /\ ValidUtf8(stream) => eval.out.text = stream

\* A command that exited with failure, wrote blanks to stdout and a letter to
\* stderr: run_capture returned the letter.
C22_Witness ==
    /\ Captured
    /\ eval.s = Output(TRUE, FALSE, <<" ", " ">>, <<"h">>)
    /\ eval.out = OkText(<<"h">>)

====
